---- MODULE Spec2Model ----
(***************************************************************************)
(* AnchorPQ example client (scripts/example-client.py) and the             *)
(* verification service it talks to.                                       *)
(*                                                                         *)
(* Text is a sequence of ASCII character codes and a byte string is a      *)
(* sequence of numbers in 0..255, so lengths, concatenation, base64 and    *)
(* the 12-byte split of the AEAD blob are computed, not assumed.           *)
(* The cryptographic primitives (HKDF, AES-GCM, ML-KEM) are small          *)
(* arithmetic stand-ins that keep the interface of the real ones: their    *)
(* input/output lengths, determinism, dependence on every input and, for   *)
(* the AEAD and the KEM, invertibility under the right key.                *)
(* secrets.token_bytes is a CSPRNG: every call returns a value that no     *)
(* earlier call returned (strictly increasing seed); which values a        *)
(* process draws is chosen nondeterministically when it starts.            *)
(***************************************************************************)
EXTENDS Integers, Sequences, FiniteSets, TLC

VARIABLES
    argv,       \* sys.argv of the running client process
    run,        \* number of the client process (1 = first invocation)
    pc,         \* position of the client in main / create_verification_request
    args,       \* arguments of create_verification_request
    loc,        \* local variables of create_verification_request
    request,    \* main's variable `request`
    response,   \* main's (response, status_code)
    report,     \* what main printed last: "none", "response", "connect", "error"
    clock,      \* wall clock, milliseconds
    entropy,    \* state of the CSPRNG behind secrets.token_bytes
    net,        \* history of the HTTP calls issued by the client
    kemLog,     \* history of simulate_mlkem_encapsulation results
    kdfLog,     \* history of derive_aes_key calls
    aeadLog,    \* history of encrypt_payload calls
    steps,      \* the protocol steps the running client has taken, in order
    keyRing,    \* server: key pairs, current one last
    trust,      \* server: TrustStore content
    consumed,   \* server: ReplayGuard set of consumed encapsulated keys
    svc         \* server: result of the last request's state machine

vars == <<argv, run, pc, args, loc, request, response, report, clock, entropy,
          net, kemLog, kdfLog, aeadLog, steps, keyRing, trust, consumed, svc>>

\* Python's None where bytes, a list or a tuple is expected: a one-element
\* sequence that is no byte string; and where a dict is expected: a record
\* with no key of any dict of the program
None == <<-1>>
NoneDict == [none |-> TRUE]

\* ------------------------------------------------------------------ bounds
MaxRuns == 2
MaxKeys == 2

\* ------------------------------------------------------- program constants
KemCiphertextLen == 1088
SharedSecretLen == 32
AesKeyLen == 32
IvLen == 12
TagLen == 16

\* --------------------------------------------------------------- text
Str_merkleRoot == <<109, 101, 114, 107, 108, 101, 82, 111, 111, 116>>
Str_version == <<118, 101, 114, 115, 105, 111, 110>>
Str_variant == <<118, 97, 114, 105, 97, 110, 116>>
Str_signerFingerprint ==
    <<115, 105, 103, 110, 101, 114, 70, 105, 110, 103, 101, 114, 112, 114, 105, 110, 116>>

\* "a1b2c3d4e5f6789012345678901234567890123456789012345678901234abcd"
ExampleMerkleRoot ==
    <<97, 49, 98, 50, 99, 51, 100, 52, 101, 53, 102, 54, 55, 56, 57, 48,
      49, 50, 51, 52, 53, 54, 55, 56, 57, 48, 49, 50, 51, 52, 53, 54,
      55, 56, 57, 48, 49, 50, 51, 52, 53, 54, 55, 56, 57, 48, 49, 50,
      51, 52, 53, 54, 55, 56, 57, 48, 49, 50, 51, 52, 97, 98, 99, 100>>
\* "1.0.0"
ExampleVersion == <<49, 46, 48, 46, 48>>
\* "release"
ExampleVariant == <<114, 101, 108, 101, 97, 115, 101>>
\* "fedcba0987654321fedcba0987654321fedcba0987654321fedcba09876543fe"
ExampleSignerFingerprint ==
    <<102, 101, 100, 99, 98, 97, 48, 57, 56, 55, 54, 53, 52, 51, 50, 49,
      102, 101, 100, 99, 98, 97, 48, 57, 56, 55, 54, 53, 52, 51, 50, 49,
      102, 101, 100, 99, 98, 97, 48, 57, 56, 55, 54, 53, 52, 51, 50, 49,
      102, 101, 100, 99, 98, 97, 48, 57, 56, 55, 54, 53, 52, 51, 102, 101>>
\* b"AnchorPQ-v1-IntegrityVerification"
DefaultInfo ==
    <<65, 110, 99, 104, 111, 114, 80, 81, 45, 118, 49, 45, 73, 110, 116, 101, 103,
      114, 105, 116, 121, 86, 101, 114, 105, 102, 105, 99, 97, 116, 105, 111, 110>>

\* the sequence f with every element computed
Seq_(f) == f \o <<>>

\* s[a..b], empty when a > b
Slice(s, a, b) == Seq_([i \in 1..(IF b >= a THEN b - a + 1 ELSE 0) |-> s[a + i - 1]])

\* (s[a] + ... + s[b]) mod 256
RECURSIVE SumRange(_, _, _)
SumRange(s, a, b) ==
    IF a > b THEN 0
    ELSE IF a = b THEN s[a] % 256
    ELSE LET m == (a + b) \div 2
         IN  (SumRange(s, a, m) + SumRange(s, m + 1, b)) % 256

\* ------------------------------------------------------------- base64
B64Pad == 61
B64Char(v) ==
    IF v < 26 THEN 65 + v
    ELSE IF v < 52 THEN 97 + (v - 26)
    ELSE IF v < 62 THEN 48 + (v - 52)
    ELSE IF v = 62 THEN 43 ELSE 47

\* base64.b64encode(b).decode('utf-8')
B64Encode(b) ==
    LET n == Len(b)
        at(i) == IF i <= n THEN b[i] ELSE 0
    IN  Seq_([j \in 1..(4 * ((n + 2) \div 3)) |->
            LET g == (j - 1) \div 4
                k == (j - 1) % 4
                b0 == at(3 * g + 1)
                b1 == at(3 * g + 2)
                b2 == at(3 * g + 3)
            IN  CASE k = 0 -> B64Char(b0 \div 4)
                  [] k = 1 -> B64Char((b0 % 4) * 16 + (b1 \div 16))
                  [] k = 2 -> IF 3 * g + 2 > n THEN B64Pad
                              ELSE B64Char((b1 % 16) * 4 + (b2 \div 64))
                  [] k = 3 -> IF 3 * g + 3 > n THEN B64Pad
                              ELSE B64Char(b2 % 64)])

\* --------------------------------------------------------------- json
\* json.dumps of a str: quotes, with '"' and '\' escaped (ASCII input)
RECURSIVE JsonEscape(_, _, _)
JsonEscape(s, a, b) ==
    IF a > b THEN <<>>
    ELSE IF a = b THEN (IF s[a] \in {34, 92} THEN <<92, s[a]>> ELSE <<s[a]>>)
    ELSE LET m == (a + b) \div 2
         IN  JsonEscape(s, a, m) \o JsonEscape(s, m + 1, b)

JsonString(s) == <<34>> \o JsonEscape(s, 1, Len(s)) \o <<34>>

RECURSIVE JsonItems(_, _)
JsonItems(d, i) ==
    IF i > Len(d) THEN <<>>
    ELSE (IF i > 1 THEN <<44, 32>> ELSE <<>>)
         \o JsonString(d[i][1]) \o <<58, 32>> \o JsonString(d[i][2])
         \o JsonItems(d, i + 1)

\* json.dumps(payload).encode('utf-8') of a dict of str -> str; a dict is the
\* sequence of its (key, value) items in insertion order
JsonDumps(d) == <<123>> \o JsonItems(d, 1) \o <<125>>

\* -------------------------------------------------------------- CSPRNG
\* a generator that returns the same bytes on every call
token_bytes_Fixed(n, s) == Seq_([i \in 1..n |-> (i * 11) % 256])

\* secrets.token_bytes(n), the value drawn under seed s
token_bytes(n, s) == Seq_([i \in 1..n |-> (s * 37 + i * 11) % 256])

\* the CSPRNG is seeded from the operating system when a process starts: the
\* states it may start in after seed e was the last one used
Reseed(e) == {e, e + 1}

\* the seed of the next draw after seed e
NextSeed(e) == e + 1

\* ---------------------------------------------------------------- HKDF
\* the hash function an HKDF instance is built on
HashId(alg) == IF alg = "SHA256" THEN 2 ELSE IF alg = "SHA3-256" THEN 3 ELSE 0

\* HKDF(algorithm, length, salt=None, info).derive(ikm): deterministic, `length`
\* bytes, a function of the hash, the info and every byte of the input key
HKDF(alg, length, info, ikm) ==
    Seq_([i \in 1..length |->
            (ikm[((i - 1) % Len(ikm)) + 1] * 5
             + (IF info = <<>> THEN 0 ELSE info[((i - 1) % Len(info)) + 1] * 3)
             + HashId(alg) * 17 + i) % 256])

\* the hash derive_aes_key instantiates HKDF with
ClientHash == "SHA256"

derive_aes_key(shared_secret, info) == HKDF(ClientHash, AesKeyLen, info, shared_secret)

\* ------------------------------------------------------------- AES-GCM
KeyStream(key, iv, i) ==
    (key[((i - 1) % Len(key)) + 1] + iv[((i - 1) % Len(iv)) + 1] * 3 + i) % 256

GcmTag(key, iv, ct) ==
    LET sum == SumRange(ct, 1, Len(ct))
    IN  Seq_([j \in 1..TagLen |->
                (key[((j - 1) % Len(key)) + 1] * 7 + iv[((j - 1) % Len(iv)) + 1]
                 + sum * j + Len(ct)) % 256])

\* AESGCM(key).encrypt(iv, plaintext, None): ciphertext with the tag appended
AESGCM_encrypt(key, iv, plaintext) ==
    LET ct == Seq_([i \in 1..Len(plaintext) |->
                      (plaintext[i] + KeyStream(key, iv, i)) % 256])
    IN  ct \o GcmTag(key, iv, ct)

\* encrypt_payload with a 16-byte IV
encrypt_payload_Iv16(key, payload, s) ==
    LET plaintext == JsonDumps(payload)
        iv == token_bytes(16, s)
        ciphertext == AESGCM_encrypt(key, iv, plaintext)
    IN  iv \o ciphertext

\* encrypt_payload(key, payload), the IV drawn under seed s
encrypt_payload(key, payload, s) ==
    LET plaintext == JsonDumps(payload)
        iv == token_bytes(IvLen, s)
        ciphertext == AESGCM_encrypt(key, iv, plaintext)
    IN  iv \o ciphertext

\* ----------------------------------------------------------------- KEM
\* simulate_mlkem_encapsulation(public_key_b64), drawn under seeds s1, s2:
\* (encapsulated_key, shared_secret); the public key is not read
simulate_mlkem_encapsulation(public_key_b64, s1, s2) ==
    <<token_bytes(KemCiphertextLen, s1), token_bytes(SharedSecretLen, s2)>>

Str_timestamp == <<116, 105, 109, 101, 115, 116, 97, 109, 112>>

\* a payload dict that also carries the timestamp
IntegrityPayload_WithTimestamp(merkle_root, version, variant, signer_fingerprint) ==
    << <<Str_merkleRoot, merkle_root>>,
       <<Str_version, version>>,
       <<Str_variant, variant>>,
       <<Str_signerFingerprint, signer_fingerprint>>,
       <<Str_timestamp, <<48>>>> >>

\* the integrity payload dict of create_verification_request, in insertion order
IntegrityPayload(merkle_root, version, variant, signer_fingerprint) ==
    << <<Str_merkleRoot, merkle_root>>,
       <<Str_version, version>>,
       <<Str_variant, variant>>,
       <<Str_signerFingerprint, signer_fingerprint>> >>

\* the request dict of create_verification_request
VerificationRequest(encapsulated_key, encrypted_payload, now) ==
    [encapsulatedKey |-> B64Encode(encapsulated_key),
     encryptedPayload |-> B64Encode(encrypted_payload),
     timestamp |-> now]

\* ------------------------------------------------- server: KeyRing, KEM
ParameterSets == {"ML-KEM-512", "ML-KEM-768", "ML-KEM-1024"}

\* ciphertext and public-key sizes of a parameter set
CtLen(ps) == IF ps = "ML-KEM-512" THEN 768 ELSE IF ps = "ML-KEM-768" THEN 1088 ELSE 1568
PkLen(ps) == IF ps = "ML-KEM-512" THEN 800 ELSE IF ps = "ML-KEM-768" THEN 1184 ELSE 1568

\* the public key of KeyRing entry e (its private key is e.seed)
PublicKeyBytes(e) ==
    Seq_([i \in 1..PkLen(e.parameterSet) |-> (e.seed * 29 + i * 13 + 5) % 256])

\* KEM encryption of the 32-byte message m under pk: deterministic
KemEncrypt(pk, m, n) ==
    Seq_([i \in 1..n |->
            IF i <= SharedSecretLen THEN (m[i] + pk[i]) % 256
            ELSE (pk[((i - 1) % Len(pk)) + 1] * 3
                  + m[((i - 1) % SharedSecretLen) + 1] * 7 + i) % 256])

KemSecret(pk, m) ==
    Seq_([i \in 1..SharedSecretLen |-> (m[i] * 3 + pk[i + SharedSecretLen] + 7) % 256])

\* KeyExchange.Encapsulate(publicKey) of the production KEM, message drawn under seed s
Encapsulate(pk, n, s) ==
    LET m == token_bytes(SharedSecretLen, s)
    IN  <<KemEncrypt(pk, m, n), KemSecret(pk, m)>>

\* KeyExchange.Decapsulate with the private key of entry e: the secret of a
\* well-formed ciphertext, a pseudo-random secret (implicit rejection) otherwise
Decapsulate(e, ct) ==
    LET pk == PublicKeyBytes(e)
        m == Seq_([i \in 1..SharedSecretLen |-> (ct[i] + 256 - pk[i]) % 256])
    IN  IF KemEncrypt(pk, m, Len(ct)) = ct
        THEN KemSecret(pk, m)
        ELSE Seq_([i \in 1..SharedSecretLen |->
                     (e.seed * 41 + ct[i] * 9 + ct[Len(ct) - i + 1] + 3) % 256])

\* GET /public-key: the descriptor of the current key
PublicKeyDescriptor(e) ==
    [keyId |-> e.keyId, parameterSet |-> e.parameterSet,
     publicKey |-> B64Encode(PublicKeyBytes(e))]

CurrentKey == keyRing[Len(keyRing)]

\* the identifiers the KeyRing gives its keys, in order of issue
KeyIds == <<"k1", "k2", "k3", "k4">>

\* --------------------------------------------- server: VerificationService
ServerHash == "SHA3-256"
ReplayWindowMs == 300000
AllowedVariants == {<<114, 101, 108, 101, 97, 115, 101>>, <<100, 101, 98, 117, 103>>}

B64Val(c) ==
    IF c >= 97 THEN c - 97 + 26
    ELSE IF c >= 65 THEN c - 65
    ELSE IF c >= 48 THEN c - 48 + 52
    ELSE IF c = 43 THEN 62 ELSE 63

\* base64 decoding of well-formed text t
B64Decode(t) ==
    LET n == Len(t)
        pads == IF n = 0 THEN 0
                ELSE IF t[n - 1] = B64Pad THEN 2 ELSE IF t[n] = B64Pad THEN 1 ELSE 0
        v(j) == IF t[j] = B64Pad THEN 0 ELSE B64Val(t[j])
    IN  Seq_([i \in 1..(3 * (n \div 4) - pads) |->
            LET g == (i - 1) \div 3
                k == (i - 1) % 3
            IN  CASE k = 0 -> v(4 * g + 1) * 4 + (v(4 * g + 2) \div 16)
                  [] k = 1 -> (v(4 * g + 2) % 16) * 16 + (v(4 * g + 3) \div 4)
                  [] k = 2 -> (v(4 * g + 3) % 4) * 64 + v(4 * g + 4)])

\* AEADCodec.Decrypt(key, blob): split at the nonce, verify the tag, decrypt
AESGCM_decrypt(key, blob) ==
    IF Len(blob) < IvLen + TagLen THEN [ok |-> FALSE, plaintext |-> <<>>]
    ELSE LET iv == Slice(blob, 1, IvLen)
             ct == Slice(blob, IvLen + 1, Len(blob) - TagLen)
             tag == Slice(blob, Len(blob) - TagLen + 1, Len(blob))
         IN  IF tag # GcmTag(key, iv, ct) THEN [ok |-> FALSE, plaintext |-> <<>>]
             ELSE [ok |-> TRUE,
                   plaintext |-> Seq_([i \in 1..Len(ct) |->
                                     (ct[i] + 256 - KeyStream(key, iv, i)) % 256])]

IsHexChar(c) == c \in (48..57) \cup (97..102) \cup (65..70)
IsHex64(s) == Len(s) = 64 /\ \A i \in 1..Len(s) : IsHexChar(s[i])

\* IntegrityPayload validation of RequestBuilder / Parser, on the four field values
ValidFields(a) ==
    /\ IsHex64(a.merkle_root)
    /\ a.version # <<>>
    /\ a.variant \in AllowedVariants
    /\ IsHex64(a.signer_fingerprint)

ExampleArgs ==
    [merkle_root |-> ExampleMerkleRoot, version |-> ExampleVersion,
     variant |-> ExampleVariant, signer_fingerprint |-> ExampleSignerFingerprint]

\* the argument tuples create_verification_request is called with: main's
\* example values, and one tuple per way a field can be invalid
Inputs ==
    { ExampleArgs,
      [ExampleArgs EXCEPT !.merkle_root = Slice(ExampleMerkleRoot, 1, 8)],
      [ExampleArgs EXCEPT !.version = <<>>],
      [ExampleArgs EXCEPT !.variant = <<115, 116, 97, 103, 105, 110, 103>>],
      [ExampleArgs EXCEPT !.signer_fingerprint = [ExampleSignerFingerprint EXCEPT ![1] = 103]] }

\* the server's parser: the fields whose serialization is the plaintext
ParsePayload(pt) ==
    LET hits == {a \in Inputs : JsonDumps(IntegrityPayload(a.merkle_root, a.version,
                                          a.variant, a.signer_fingerprint)) = pt}
    IN  IF hits = {} THEN [ok |-> FALSE, fields |-> ExampleArgs]
        ELSE [ok |-> TRUE, fields |-> CHOOSE a \in hits : TRUE]

Responded(trace, verified, code, status) ==
    [trace |-> trace \o <<"Responded">>, verified |-> verified,
     reasonCode |-> code, status |-> status]

\* the time a request spends on its way to the server: none, or twice the
\* replay window
Delays == {0, 2 * ReplayWindowMs}

\* the KeyRing entries tried for a request: the current key first, then the
\* prior keys still within the rotation window, newest first
Candidates == [i \in 1..Len(keyRing) |-> keyRing[Len(keyRing) + 1 - i]]

\* no KeyRing entry: the keyId of the request is unknown, or no candidate fits
NoKey == [keyId |-> "", parameterSet |-> "", seed |-> 0]

\* decapsulation against entry e succeeds: the ciphertext has the size of e's
\* parameter set and the key derived from the decapsulated secret opens blob
Opens(e, ct, blob) ==
    /\ Len(ct) = CtLen(e.parameterSet)
    /\ AESGCM_decrypt(HKDF(ServerHash, AesKeyLen, DefaultInfo, Decapsulate(e, ct)),
                      blob).ok

\* whether the service falls back to prior keys ("may fall back"): a choice
\* of the deployment, without effect while the KeyRing holds one key
FallbackChoices == IF Len(keyRing) > 1 THEN BOOLEAN ELSE {FALSE}

\* key selection: the entry the request names, else the current key and, when
\* that one fails and the service falls back, the first prior key that succeeds
SelectKey(req, fallback) ==
    IF "keyId" \in DOMAIN req
    THEN LET named == {i \in DOMAIN keyRing : keyRing[i].keyId = req.keyId}
         IN  IF named = {} THEN NoKey ELSE keyRing[CHOOSE i \in named : TRUE]
    ELSE IF ~fallback THEN CurrentKey
    ELSE LET ct == B64Decode(req.encapsulatedKey)
             blob == B64Decode(req.encryptedPayload)
             hits == {i \in DOMAIN Candidates : Opens(Candidates[i], ct, blob)}
         IN  IF hits = {} THEN NoKey
             ELSE Candidates[CHOOSE i \in hits : \A j \in hits : i <= j]

\* the result r of a request, with the key the service selected for it
Served(e, r) ==
    [trace |-> r.trace, verified |-> r.verified, reasonCode |-> r.reasonCode,
     status |-> r.status, keyId |-> e.keyId]

\* the per-request state machine on the POST /verify body req, received at
\* time now, with KeyRing entry e selected, the TrustStore being reachable or not
ServiceOn(e, req, now, tsUp) ==
    LET ct == B64Decode(req.encapsulatedKey)
        blob == B64Decode(req.encryptedPayload)
    IN  IF Len(ct) # CtLen(e.parameterSet)
        THEN Responded(<<"Received", "KeySelected">>, FALSE, "PROTOCOL_ERROR", 400)
        ELSE
        LET ss == Decapsulate(e, ct)
            key == HKDF(ServerHash, AesKeyLen, DefaultInfo, ss)
            dec == AESGCM_decrypt(key, blob)
            parsed == ParsePayload(dec.plaintext)
            f == parsed.fields
        IN  IF ~dec.ok
            THEN Responded(<<"Received", "KeySelected", "Decapsulated", "KeyDerived">>,
                           FALSE, "VERIFICATION_FAILED", 200)
            ELSE IF ~(parsed.ok /\ ValidFields(f))
            THEN Responded(<<"Received", "KeySelected", "Decapsulated", "KeyDerived",
                             "Decrypted">>, FALSE, "PROTOCOL_ERROR", 200)
            ELSE IF ~tsUp
            THEN Responded(<<"Received", "KeySelected", "Decapsulated", "KeyDerived",
                             "Decrypted", "PayloadValidated", "ReplayChecked">>,
                           FALSE, "TRUST_STORE_UNAVAILABLE", 503)
            ELSE Responded(<<"Received", "KeySelected", "Decapsulated", "KeyDerived",
                             "Decrypted", "PayloadValidated", "ReplayChecked",
                             "TrustChecked">>,
                           f \in trust, IF f \in trust THEN "OK" ELSE "TRUST_DENIED", 200)

\* POST /verify: the early replay check, key selection, then the state
\* machine with the selected key; no key found is an AuthenticationFailure
ServiceRun(req, now, tsUp, fallback) ==
    IF now - req.timestamp > ReplayWindowMs \/ B64Decode(req.encapsulatedKey) \in consumed
    THEN Served(NoKey, Responded(<<"Received">>, FALSE, "REPLAY", 200))
    ELSE LET e == SelectKey(req, fallback)
         IN  IF e = NoKey
             THEN Served(NoKey, Responded(<<"Received">>, FALSE, "VERIFICATION_FAILED", 200))
             ELSE Served(e, ServiceOn(e, req, now, tsUp))

\* the ciphertexts the ReplayGuard holds after serving req at time now
Consume(req, now) ==
    LET ct == B64Decode(req.encapsulatedKey)
    IN  IF now - req.timestamp > ReplayWindowMs \/ Len(ct) # CtLen(CurrentKey.parameterSet)
        THEN consumed ELSE consumed \cup {ct}

\* ----------------------------------------------------------- the client
\* the command lines the script is started with: no argument, or a server URL
\* followed by a further argument (which the script never reads)
ArgvChoices ==
    { <<"example-client.py">>,
      <<"example-client.py", "http://anchorpq:8080", "--kem=simulated">> }

\* SERVER_URL = sys.argv[1] if len(sys.argv) > 1 else "http://localhost:8080"
SERVER_URL(av) == IF Len(av) > 1 THEN av[2] ELSE "http://localhost:8080"

\* the key encapsulation create_verification_request calls under command line av
KeyExchangeImpl(av) == "simulated"

EmptyFrame ==
    [key_info |-> NoneDict, encapsulated_key |-> None, shared_secret |-> None,
     aes_key |-> None, payload |-> None, encrypted_payload |-> None]

NoResult ==
    [trace |-> <<>>, verified |-> FALSE, reasonCode |-> "", status |-> 0, keyId |-> ""]

\* the state when a client process starts: started with a command line of
\* avs, create_verification_request called with arguments of ins, the server
\* holding one key of a parameter set of pss
Start(avs, ins, pss) ==
    /\ argv \in avs
    /\ args \in ins
    /\ run = 1
    /\ pc = "step1"
    /\ loc = EmptyFrame
    /\ request = NoneDict
    /\ response = <<>>
    /\ report = "none"
    /\ clock = 0
    /\ entropy \in Reseed(0)
    /\ net = <<>>
    /\ kemLog = <<>>
    /\ kdfLog = <<>>
    /\ aeadLog = <<>>
    /\ steps = <<>>
    /\ keyRing \in {<<[keyId |-> KeyIds[1], parameterSet |-> ps, seed |-> 1]>> : ps \in pss}
    /\ trust = {ExampleArgs}
    /\ consumed = {}
    /\ svc = NoResult

\* main: the script run from any command line against any server key, with
\* the example values main passes
Init == Start(ArgvChoices, {ExampleArgs}, ParameterSets)

\* create_verification_request called with any of Inputs
InitInputs == Start({<<"example-client.py">>}, Inputs, {"ML-KEM-768"})

\* a main that fetches the key again after a failed GET /public-key
AfterGetFailure_Retry == "step1"

\* where main continues when get_server_public_key raised: an except clause
\* prints and main ends
AfterGetFailure == "done"

\* Step 1: get_server_public_key(); requests.get raises ConnectionError,
\* raise_for_status raises HTTPError, both caught in main
GetServerPublicKey ==
    /\ pc = "step1"
    /\ \E o \in {"ok", "connection_error", "http_error"} :
        /\ net' = Append(net, [run |-> run, method |-> "GET",
                               url |-> SERVER_URL(argv), path |-> "/public-key",
                               body |-> NoneDict, outcome |-> o, reply |-> None])
        /\ IF o = "ok"
           THEN /\ loc' = [loc EXCEPT !.key_info = PublicKeyDescriptor(CurrentKey)]
                /\ pc' = "step2"
                /\ report' = report
           ELSE /\ loc' = EmptyFrame
                /\ pc' = AfterGetFailure
                /\ report' = IF o = "connection_error" THEN "connect" ELSE "error"
    /\ steps' = Append(steps, "fetch")
    /\ UNCHANGED <<argv, run, args, request, response, clock, entropy,
                   kemLog, kdfLog, aeadLog, keyRing, trust, consumed, svc>>

\* Step 2: encapsulated_key, shared_secret = simulate_mlkem_encapsulation(...)
EncapsulateStep ==
    /\ pc = "step2"
    /\ \E s1 \in {NextSeed(entropy)} : \E s2 \in {NextSeed(s1)} :
        LET r == simulate_mlkem_encapsulation(loc.key_info.publicKey, s1, s2)
        IN  /\ loc' = [loc EXCEPT !.encapsulated_key = r[1], !.shared_secret = r[2]]
            /\ kemLog' = Append(kemLog, [run |-> run, kem |-> KeyExchangeImpl(argv),
                                         keyId |-> loc.key_info.keyId,
                                         encapsulated_key |-> r[1],
                                         shared_secret |-> r[2]])
            /\ entropy' = s2
    /\ pc' = "step3"
    /\ steps' = Append(steps, "encapsulate")
    /\ UNCHANGED <<argv, run, args, request, response, report, clock,
                   net, kdfLog, aeadLog, keyRing, trust, consumed, svc>>

\* a Step 3 that takes the shared secret itself as the AES key
DeriveStep_RawSecret ==
    /\ pc = "step3"
    /\ loc' = [loc EXCEPT !.aes_key = loc.shared_secret]
    /\ pc' = "step4"
    /\ UNCHANGED <<argv, run, args, request, response, report, clock, entropy,
                   net, kemLog, kdfLog, aeadLog, steps, keyRing, trust, consumed, svc>>

\* Step 3: aes_key = derive_aes_key(shared_secret)
DeriveStep ==
    /\ pc = "step3"
    /\ LET k == derive_aes_key(loc.shared_secret, DefaultInfo)
       IN  /\ loc' = [loc EXCEPT !.aes_key = k]
           /\ kdfLog' = Append(kdfLog, [run |-> run, shared_secret |-> loc.shared_secret,
                                        key |-> k])
    /\ pc' = "step4"
    /\ steps' = Append(steps, "derive")
    /\ UNCHANGED <<argv, run, args, request, response, report, clock, entropy,
                   net, kemLog, aeadLog, keyRing, trust, consumed, svc>>

\* Step 4: payload = {...}
PayloadStep ==
    /\ pc = "step4"
    /\ loc' = [loc EXCEPT !.payload = IntegrityPayload(args.merkle_root, args.version,
                                          args.variant, args.signer_fingerprint)]
    /\ pc' = "step5"
    /\ steps' = Append(steps, "build")
    /\ UNCHANGED <<argv, run, args, request, response, report, clock, entropy,
                   net, kemLog, kdfLog, aeadLog, keyRing, trust, consumed, svc>>

\* Step 5: encrypted_payload = encrypt_payload(aes_key, payload)
EncryptStep ==
    /\ pc = "step5"
    /\ \E s \in {NextSeed(entropy)} :
        LET blob == encrypt_payload(loc.aes_key, loc.payload, s)
        IN  /\ loc' = [loc EXCEPT !.encrypted_payload = blob]
            /\ aeadLog' = Append(aeadLog, [run |-> run, key |-> loc.aes_key,
                                           payload |-> loc.payload, blob |-> blob])
            /\ entropy' = s
    /\ pc' = "step6"
    /\ steps' = Append(steps, "encrypt")
    /\ UNCHANGED <<argv, run, args, request, response, report, clock,
                   net, kemLog, kdfLog, keyRing, trust, consumed, svc>>

\* a Step 6 after which the locals stay referenced (kept in a module-level
\* variable, say)
CreateRequest_KeepsLocals ==
    /\ pc = "step6"
    /\ request' = VerificationRequest(loc.encapsulated_key, loc.encrypted_payload, clock)
    /\ pc' = "send"
    /\ UNCHANGED <<steps, argv, run, args, loc, response, report, clock, entropy,
                   net, kemLog, kdfLog, aeadLog, keyRing, trust, consumed, svc>>

\* Step 6: request = {...}; return request (the frame and its locals go away)
CreateRequest ==
    /\ pc = "step6"
    /\ request' = VerificationRequest(loc.encapsulated_key, loc.encrypted_payload, clock)
    /\ loc' = EmptyFrame
    /\ pc' = "send"
    /\ UNCHANGED <<steps, argv, run, args, response, report, clock, entropy,
                   net, kemLog, kdfLog, aeadLog, keyRing, trust, consumed, svc>>

\* a main that sends the request again after a ConnectionError
AfterConnectionError_Retry == "send"

\* where main continues when requests.post raised ConnectionError: the except
\* clause prints and main ends
AfterConnectionError == "done"

\* verify_integrity(request): one requests.post; a ConnectionError is caught in
\* main, any HTTP status is returned with the JSON body
VerifyIntegrity ==
    /\ pc = "send"
    /\ \/ /\ net' = Append(net, [run |-> run, method |-> "POST",
                                 url |-> SERVER_URL(argv), path |-> "/verify",
                                 body |-> request, outcome |-> "connection_error",
                                 reply |-> None])
          /\ report' = "connect"
          /\ pc' = AfterConnectionError
          /\ UNCHANGED <<response, clock, consumed, svc>>
       \/ \E d \in Delays : \E tsUp \in BOOLEAN : \E fb \in FallbackChoices :
          \E r \in {ServiceRun(request, clock + d, tsUp, fb)} :
              /\ clock' = clock + d
              /\ svc' = r
              /\ consumed' = Consume(request, clock')
              /\ response' = <<[verified |-> r.verified, reasonCode |-> r.reasonCode,
                                serverTime |-> clock'], r.status>>
              /\ net' = Append(net, [run |-> run, method |-> "POST",
                                     url |-> SERVER_URL(argv), path |-> "/verify",
                                     body |-> request, outcome |-> "ok",
                                     reply |-> response'])
              /\ pc' = "print"
              /\ report' = report
    /\ steps' = Append(steps, "send")
    /\ UNCHANGED <<argv, run, args, loc, request, entropy,
                   kemLog, kdfLog, aeadLog, keyRing, trust>>

\* print(json.dumps(response, indent=2)); main returns
PrintResponse ==
    /\ pc = "print"
    /\ report' = "response"
    /\ pc' = "done"
    /\ UNCHANGED <<steps, argv, run, args, loc, request, response, clock, entropy,
                   net, kemLog, kdfLog, aeadLog, keyRing, trust, consumed, svc>>

\* the same command is started again: a new process, new variables
NewRun ==
    /\ pc = "done"
    /\ run < MaxRuns
    /\ run' = run + 1
    /\ pc' = "step1"
    /\ loc' = EmptyFrame
    /\ request' = NoneDict
    /\ response' = <<>>
    /\ report' = "none"
    /\ entropy' \in Reseed(entropy)
    /\ steps' = <<>>
    /\ UNCHANGED <<argv, args, clock, net, kemLog, kdfLog, aeadLog,
                   keyRing, trust, consumed, svc>>

Next ==
    \/ GetServerPublicKey
    \/ EncapsulateStep
    \/ DeriveStep
    \/ PayloadStep
    \/ EncryptStep
    \/ CreateRequest
    \/ VerifyIntegrity
    \/ PrintResponse
    \/ NewRun

Spec == Init /\ [][Next]_vars

\* the server rotates its key: a new current key of the same parameter set,
\* the prior key staying valid for the rotation window
Rotate ==
    /\ Len(keyRing) < MaxKeys
    /\ keyRing' = Append(keyRing, [keyId |-> KeyIds[Len(keyRing) + 1],
                                   parameterSet |-> CurrentKey.parameterSet,
                                   seed |-> Len(keyRing) + 1])
    /\ UNCHANGED <<argv, run, pc, args, loc, request, response, report, clock,
                   entropy, net, kemLog, kdfLog, aeadLog, steps, trust, consumed, svc>>

NextRotation ==
    \/ Next
    \/ Rotate

\* the cryptography package cannot be imported: the import inside
\* derive_aes_key or inside encrypt_payload raises ImportError, which leaves
\* create_verification_request; the traceback keeps the frame and its locals
ImportFailure ==
    /\ pc \in {"step3", "step5"}
    /\ pc' = "except"
    /\ UNCHANGED <<argv, run, args, loc, request, response, report, clock, entropy,
                   net, kemLog, kdfLog, aeadLog, steps, keyRing, trust, consumed, svc>>

\* except Exception as e: the error is printed; when the clause ends e is
\* deleted, and with it the traceback and the frame; main returns
HandleException ==
    /\ pc = "except"
    /\ report' = "error"
    /\ loc' = EmptyFrame
    /\ pc' = "done"
    /\ UNCHANGED <<argv, run, args, request, response, clock, entropy,
                   net, kemLog, kdfLog, aeadLog, steps, keyRing, trust, consumed, svc>>

NextFaults ==
    \/ Next
    \/ ImportFailure
    \/ HandleException

\* main run where the cryptography package may be missing
SpecFaults == Init /\ [][NextFaults]_vars

\* a statement of the running client: everything but the start of a process
ClientStep ==
    \/ GetServerPublicKey
    \/ EncapsulateStep
    \/ DeriveStep
    \/ PayloadStep
    \/ EncryptStep
    \/ CreateRequest
    \/ VerifyIntegrity
    \/ PrintResponse
    \/ ImportFailure
    \/ HandleException

\* the positions of the client
PcValues ==
    {"step1", "step2", "step3", "step4", "step5", "step6", "send", "print",
     "except", "done"}

\* ClientStep seen through pc: every position but "done" is the whole guard of
\* a client statement, and every client statement moves to another position
Running == pc # "done" /\ pc' \in PcValues \ {pc}

\* main run by an interpreter that executes the next statement whenever there
\* is one, every HTTP call returning or raising
SpecLive == Init /\ [][NextFaults]_vars /\ WF_pc(Running)

\* main run against a server that may rotate its key at any time
SpecRotation == Init /\ [][NextRotation]_vars

SpecInputs == InitInputs /\ [][Next]_vars

\* ====================================================================
\* Properties
\* ====================================================================
Posts == {i \in DOMAIN net : net[i].method = "POST"}

KeyRingEntry(id) == CHOOSE e \in {keyRing[i] : i \in DOMAIN keyRing} : e.keyId = id

IsPrefix(s, t) == Len(s) <= Len(t) /\ \A i \in 1..Len(s) : s[i] = t[i]

\* C1: create_verification_request called with an invalid field fails before
\* encryption and issues no network call, neither GET /public-key nor POST /verify.
C1_InvalidInputIssuesNoCall ==
    ~ValidFields(args) => (net = <<>> /\ aeadLog = <<>>)

\* C2: for every shared secret, the key derive_aes_key returns is the key the
\* server derives from that shared secret (HKDF-SHA3-256, the same info).
C2_ClientKeyIsServerKey ==
    \A i \in DOMAIN kdfLog :
        kdfLog[i].key = HKDF(ServerHash, AesKeyLen, DefaultInfo, kdfLog[i].shared_secret)

\* C3: decapsulating the client's encapsulated_key with the private key of the
\* fetched public key yields exactly the client's shared_secret.
C3_KemRoundTrip ==
    \A i \in DOMAIN kemLog :
        Decapsulate(KeyRingEntry(kemLog[i].keyId), kemLog[i].encapsulated_key)
            = kemLog[i].shared_secret

\* C4: the full flow with the example payload, a fresh timestamp, the level-3
\* key of the end-to-end test and a reachable TrustStore that allows the payload
\* ends in Responded with verified = true.
C4_TrustedExampleIsVerified ==
    ( /\ pc = "print"
      /\ args = ExampleArgs
      /\ ExampleArgs \in trust
      /\ CurrentKey.parameterSet = "ML-KEM-768"
      /\ response[1].serverTime - request.timestamp <= ReplayWindowMs
      /\ svc.reasonCode # "TRUST_STORE_UNAVAILABLE"
      /\ svc.trace[Len(svc.trace)] = "Responded" )
    => svc.verified

ProtocolOrder == <<"fetch", "encapsulate", "derive", "build", "encrypt", "send">>

\* C5: in every run the steps taken are fetch, encapsulate, derive, build,
\* encrypt, send in this order, none skipped over or repeated, and every
\* POST /verify carries the payload encrypted under the key derived from the
\* shared secret of that run's encapsulation.
C5_StepsInOrder ==
    /\ IsPrefix(steps, ProtocolOrder)
    /\ \A i \in Posts :
        \E k \in DOMAIN kemLog : \E d \in DOMAIN kdfLog : \E a \in DOMAIN aeadLog :
            /\ kemLog[k].run = net[i].run
            /\ kdfLog[d].run = net[i].run
            /\ aeadLog[a].run = net[i].run
            /\ kdfLog[d].shared_secret = kemLog[k].shared_secret
            /\ aeadLog[a].key = kdfLog[d].key
            /\ net[i].body.encapsulatedKey = B64Encode(kemLog[k].encapsulated_key)
            /\ net[i].body.encryptedPayload = B64Encode(aeadLog[a].blob)

\* a run that went through every step and sent its request
C5_Witness == steps = ProtocolOrder /\ \E i \in Posts : net[i].run = run

Derivations(ss) == {j \in DOMAIN kdfLog : kdfLog[j].shared_secret = ss}
Encryptions(k) == {j \in DOMAIN aeadLog : aeadLog[j].key = k}
Nonce(blob) == Slice(blob, 1, 12)

\* C6: across runs, every shared secret of an encapsulation is the input of
\* exactly one derive_aes_key call (none while the run is still before Step 3)
\* and every derived key is used by exactly one encrypt_payload call (none
\* while the run is still before Step 5); no two encryptions use the same key,
\* so no nonce repeats under one key.
C6_SingleUse ==
    /\ \A i \in DOMAIN kemLog :
        Cardinality(Derivations(kemLog[i].shared_secret))
            = IF kemLog[i].run = run /\ pc = "step3" THEN 0 ELSE 1
    /\ \A j \in DOMAIN kdfLog :
        Cardinality(Encryptions(kdfLog[j].key))
            = IF kdfLog[j].run = run /\ pc \in {"step4", "step5"} THEN 0 ELSE 1
    /\ \A a \in DOMAIN aeadLog : \E j \in DOMAIN kdfLog : kdfLog[j].key = aeadLog[a].key
    /\ \A a \in DOMAIN aeadLog : \A b \in DOMAIN aeadLog :
        a # b => /\ aeadLog[a].key # aeadLog[b].key
                 /\ <<aeadLog[a].key, Nonce(aeadLog[a].blob)>>
                        # <<aeadLog[b].key, Nonce(aeadLog[b].blob)>>

\* two runs have each encapsulated, derived and encrypted
C6_Witness == Len(kemLog) = 2 /\ Len(kdfLog) = 2 /\ Len(aeadLog) = 2

\* C7: every encapsulatedKey is sent in at most one POST /verify: a run issues
\* at most one POST, whatever its outcome, and the POSTs of different runs
\* carry different encapsulated keys.
C7_NoReplay ==
    \A i \in Posts : \A j \in Posts :
        i # j => /\ net[i].run # net[j].run
                 /\ net[i].body.encapsulatedKey # net[j].body.encapsulatedKey

\* a POST failed (no connection, or answered verified = false) and a later run
\* sent a POST of its own
C7_Witness ==
    \E i \in Posts : \E j \in Posts :
        /\ i < j
        /\ net[i].outcome = "ok"
        /\ ~net[i].reply[1].verified
        /\ \E k \in Posts : net[k].outcome = "connection_error"

\* C8: a POST /verify carries an encapsulatedKey of the simulated KEM only when
\* the simulated KEM was selected explicitly on the command line.
C8_SimulatedOnlyWhenConfigured ==
    \A i \in Posts : \A k \in DOMAIN kemLog :
        (kemLog[k].run = net[i].run /\ kemLog[k].kem = "simulated")
        => \E n \in DOMAIN argv : argv[n] = "--kem=simulated"

\* the dict the claim expects in the envelope: the four fields, nothing else
FourFields(a) ==
    << <<Str_merkleRoot, a.merkle_root>>,
       <<Str_version, a.version>>,
       <<Str_variant, a.variant>>,
       <<Str_signerFingerprint, a.signer_fingerprint>> >>

RequestsBuilt ==
    {net[i].body : i \in Posts} \cup (IF pc \in {"send", "print"} THEN {request} ELSE {})

\* C9: every request built has exactly the clear-text fields encapsulatedKey,
\* encryptedPayload and timestamp, and the plaintext sealed in encryptedPayload
\* is the serialization of exactly merkleRoot, version, variant and
\* signerFingerprint: no timestamp inside, no payload field outside.
C9_TimestampClearPayloadSealed ==
    \A r \in RequestsBuilt :
        /\ DOMAIN r = {"encapsulatedKey", "encryptedPayload", "timestamp"}
        /\ r.timestamp \in Nat
        /\ \E a \in DOMAIN aeadLog :
            LET dec == AESGCM_decrypt(aeadLog[a].key, B64Decode(r.encryptedPayload))
            IN  dec.ok /\ dec.plaintext = JsonDumps(FourFields(args))

\* a request was built and is about to be sent
C9_Witness == pc = "send" /\ RequestsBuilt # {}

\* C10: encrypt_payload returns a 12-byte nonce followed by the ciphertext with
\* its 16-byte tag: 12 + len(plaintext) + 16 bytes, never fewer than 28, and
\* Decrypt with the same key, splitting at byte 12, returns the plaintext.
C10_EncryptLayoutAndRoundTrip ==
    \A a \in DOMAIN aeadLog :
        LET pt == JsonDumps(aeadLog[a].payload)
            blob == aeadLog[a].blob
        IN  /\ Len(blob) = 12 + Len(pt) + 16
            /\ Len(blob) >= 12 + 16
            /\ AESGCM_decrypt(aeadLog[a].key, blob) = [ok |-> TRUE, plaintext |-> pt]

\* encrypt_payload has returned in the running client
C10_Witness == pc = "step6" /\ aeadLog # <<>>

\* C11: whatever parameter set the fetched descriptor names, the encapsulated
\* key the client builds has the ciphertext size of that parameter set, and no
\* POST /verify is answered with the ProtocolError of the server's length check.
C11_CiphertextSizeMatchesParameterSet ==
    /\ \A k \in DOMAIN kemLog :
        Len(kemLog[k].encapsulated_key)
            = CtLen(KeyRingEntry(kemLog[k].keyId).parameterSet)
    /\ \A i \in Posts :
        net[i].outcome = "ok" => net[i].reply[1].reasonCode # "PROTOCOL_ERROR"

\* C12: when the server rotated its key between the client's GET /public-key
\* and its POST /verify and the key the client fetched is still in the KeyRing,
\* the service decapsulates the request with that key, and a request that this
\* key verifies is answered verified.
C12_RotationKeepsClientKey ==
    (pc = "print" /\ svc.reasonCode # "REPLAY") =>
        \A k \in DOMAIN kemLog :
            ( /\ kemLog[k].run = run
              /\ \E i \in DOMAIN keyRing : keyRing[i].keyId = kemLog[k].keyId )
            => /\ svc.keyId = kemLog[k].keyId
               /\ ( /\ svc.reasonCode # "TRUST_STORE_UNAVAILABLE"
                    /\ ServiceOn(KeyRingEntry(kemLog[k].keyId), request,
                                 response[1].serverTime, TRUE).verified )
                  => svc.verified

\* the run's POST /verify was issued, so main holds the request it built
RequestHeld == pc \in {"send", "print"} \/ \E j \in DOMAIN steps : steps[j] = "send"

\* the shared secrets and derived keys the running client created
RunSecrets ==
    {kemLog[k].shared_secret : k \in {j \in DOMAIN kemLog : kemLog[j].run = run}}
    \cup {kdfLog[d].key : d \in {j \in DOMAIN kdfLog : kdfLog[j].run = run}}

Gets == {i \in DOMAIN net : net[i].method = "GET"}

\* a GET /public-key of run r failed: no connection, or a non-2xx status
GetFailed(r) == \E i \in Gets : net[i].run = r /\ net[i].outcome # "ok"

\* the part of C14 that is about states
C14_FailedGetStopsRun ==
    /\ pc \in PcValues
    /\ \A r \in 1..run :
        GetFailed(r) =>
            /\ \A k \in DOMAIN kemLog : kemLog[k].run # r
            /\ \A d \in DOMAIN kdfLog : kdfLog[d].run # r
            /\ \A a \in DOMAIN aeadLog : aeadLog[a].run # r
            /\ \A i \in Posts : net[i].run # r
            /\ r = run => (pc = "done" /\ report \in {"connect", "error"})
    /\ \A i \in DOMAIN net : \A j \in DOMAIN net :
        (i # j /\ net[i].run = net[j].run) => net[i].method # net[j].method

====
